---- MODULE Spec2Model ----
(***************************************************************************)
(* Model of the patcher core of rpatchur (src/rpatchur/src/patcher/core.rs *)
(* and cancellation.rs): the command loop patcher_thread_routine, the      *)
(* update routine update_game / interruptible_update_routine with its      *)
(* three stages (find_available_patch_server, download_patches_concurrent, *)
(* apply_patches), apply_single_patch, the advisory update lock and the    *)
(* patcher cache file.                                                     *)
(*                                                                         *)
(* Several patcher processes (Inst) work on one installation directory:    *)
(* they share the lock file and the cache file, each has its own command   *)
(* channel and its own core thread.                                        *)
(***************************************************************************)
EXTENDS Integers, Sequences, FiniteSets, TLC

(***************************************************************************)
(* Bounds of the model.                                                    *)
(***************************************************************************)
MaxIndex == 2
MaxPatches == 2
MaxServers == 2
MaxCmds == 1
MaxRuns == 2
MaxTicks == 1
PoolPatches == 34

\* const CONCURRENT_DOWNLOADS: usize = 32;
CONCURRENT_DOWNLOADS == 32

\* The patcher processes started on the installation directory.
Inst == {"p1", "p2"}

NoHolder == "none"

\* The cache file is absent (or corrupt): read_cache_file fails.
NoCache == -1

\* enum PatcherCommand
PatcherCommand == {"StartUpdate", "CancelUpdate", "ResetCache", "ManualPatch", "Quit"}

(***************************************************************************)
(* Patch lists.  A ThorPatchInfo is an index and a file name; within one   *)
(* mirror an index names one file.  A mirror serves its entries in any     *)
(* order.                                                                  *)
(***************************************************************************)
FileNames == <<"a.thor", "b.thor", "c.thor", "d.thor", "e.thor", "f.thor">>

ThorPatchInfo(k) == [index |-> k, file_name |-> FileNames[k]]

IsInjective(f) == \A a, b \in DOMAIN f : f[a] = f[b] => a = b

IndexSeqs ==
    UNION { { s \in [1..n -> 1..MaxIndex] : IsInjective(s) } : n \in 0..MaxPatches }

ThorPatchList == { [k \in DOMAIN s |-> ThorPatchInfo(s[k])] : s \in IndexSeqs }

Indices(list) == { list[k].index : k \in DOMAIN list }


(***************************************************************************)
(* Statuses and results.                                                   *)
(***************************************************************************)
\* enum PatchingStatus; bps is 0 or 1 (some measured speed)
PatchingStatus(tag, done, total, bps, text, file) ==
    [tag |-> tag, done |-> done, total |-> total, bps |-> bps, text |-> text, file |-> file]

Ready == PatchingStatus("Ready", 0, 0, 0, "", "")
Error(text, file) == PatchingStatus("Error", 0, 0, 0, text, file)
DownloadInProgress(done, total, bps) ==
    PatchingStatus("DownloadInProgress", done, total, bps, "", "")
InstallationInProgress(done, total) ==
    PatchingStatus("InstallationInProgress", done, total, 0, "", "")
ManualPatchApplied(file) == PatchingStatus("ManualPatchApplied", 0, 0, 0, "", file)

\* Result<()> of interruptible_update_routine; NoRes before it has returned
NoRes == [kind |-> "none", text |-> "", file |-> ""]
Ok == [kind |-> "ok", text |-> "", file |-> ""]
Err(text, file) == [kind |-> "err", text |-> text, file |-> file]

(***************************************************************************)
(* The configuration record is an input the routines only read.  The model *)
(* draws each part where the code first reads it: config.web (the servers  *)
(* of patch_servers are named 1..server_count, in list order;              *)
(* preferred_patch_server is 0 for None, and a name above server_count is  *)
(* not in the list) and config.patching.check_integrity.                   *)
(***************************************************************************)
WebConfiguration == [server_count : 0..MaxServers, preferred : 0..MaxServers]

\* no configuration in scope
NoWeb == [server_count |-> 0, preferred |-> 0]

(***************************************************************************)
(* The local state of update_game and of the routines it calls.            *)
(***************************************************************************)
NoRun ==
    [ web |-> NoWeb,                \* config.web of find_available_patch_server
      ensure_integrity |-> FALSE,   \* config.patching.check_integrity
      filtered |-> FALSE,           \* should_filter_patch_list
      loop_idx |-> 0,               \* position of the fallback loop over server_list
      probed |-> <<>>,              \* servers probed by find_available_patch_server
      mirror_list |-> <<>>,         \* patch list the successful probe returned
      cache_read |-> NoCache,       \* last_patch_index read from the cache file
      patch_list |-> <<>>,          \* patch_list of interruptible_update_routine
      dl |-> <<>>,                  \* state of each download future
      vec |-> <<>>,                 \* PendingPatches in completion order
      ticks |-> 0,                  \* progress statuses of the callbacks
      pending_patch_queue |-> <<>>, \* result of download_patches_concurrent
      patch_number |-> 0,           \* iterations of the loop of apply_patches done
      applyLog |-> <<>>,            \* indices apply_patch was called for, in order
      applied |-> {},               \* indices apply_patch returned Ok(()) for
      recorded |-> NoCache,         \* value last read from or written to the cache
      observed |-> "none",          \* what a stage returned Interrupted for
      res |-> NoRes ]               \* result of interruptible_update_routine

VARIABLES
    lock,        \* holder of the exclusive advisory lock on <stem>.lock
    cacheFile,   \* last_patch_index persisted in <stem>.dat, or NoCache
    pc,          \* position of each core thread
    cmdq,        \* commands in flight on each command channel
    connected,   \* a sending end of the command channel is alive
    nsent,       \* sends and drops of the user interface so far
    nruns,       \* calls of update_game and apply_single_patch so far
    run,         \* local state of the routine each core thread runs
    statuses     \* statuses dispatched since the core last took up a command or routine

vars == <<lock, cacheFile, pc, cmdq, connected, nsent, nruns, run, statuses>>

Upd(f, i, v) == [f EXCEPT ![i] = v]

\* UiController::dispatch_patching_status
dispatch_patching_status(log, status) == Append(log, status)

\* UiController::set_patching_in_progress
set_patching_in_progress(log, value) ==
    dispatch_patching_status(log, IF value THEN DownloadInProgress(0, 0, 0) ELSE Ready)

(***************************************************************************)
(* The command channel (std::sync::mpsc).                                  *)
(***************************************************************************)
\* inside update_game, between take_update_lock and the drop of the scope guard
InUpdate(i) ==
    pc[i] \in {"find_preferred", "find_loop", "panic", "read_cache", "download",
               "download_poll", "wait_for_cancellation", "apply_patches",
               "apply_poll", "apply_patch", "write_cache_file", "update_exit"}

\* inside update_game or apply_single_patch, under the scope guard
UnderLock(i) == InUpdate(i) \/ pc[i] = "single_patch"

\* what the core thread was in when a command was sent: the select! of
\* download_patches_concurrent, another part of update_game or
\* apply_single_patch, or its command loop
Stage(i) ==
    IF pc[i] \in {"download_poll", "wait_for_cancellation"} THEN "download"
    ELSE IF UnderLock(i) THEN "busy" ELSE "idle"

\* A message in flight: the command, and the stage of the core when it was
\* sent (history, read by no operation)
Message(c, during) == [cmd |-> c, during |-> during]

\* Receiver::try_recv: a queued message first, else Empty or Disconnected
try_recv(q, conn) ==
    IF q # <<>> THEN [msg |-> Head(q).cmd, rest |-> Tail(q)]
    ELSE [msg |-> IF conn THEN "Empty" ELSE "Disconnected", rest |-> q]

\* cancellation.rs: process_incoming_commands
process_incoming_commands(q, conn) ==
    LET r == try_recv(q, conn)
    IN  [res |-> IF r.msg \in {"CancelUpdate", "Quit", "Disconnected"}
                 THEN "Interrupted" ELSE "Ok",
         rest |-> r.rest]

\* the process runs and its core thread has not ended
Alive(i) == pc[i] \notin {"off", "terminated", "panicked", "aborted"}

TypeOK ==
    /\ lock \in Inst \cup {NoHolder}
    /\ cacheFile \in {NoCache} \cup (1..MaxIndex)
    /\ \A i \in Inst : run[i].web \in WebConfiguration
    /\ \A i \in Inst : Len(cmdq[i]) <= MaxCmds + 1

\* the state after construction, with the processes of `started` running
InitWith(started) ==
    /\ lock = NoHolder
    /\ cacheFile \in {NoCache} \cup (1..MaxIndex)
    /\ pc = [i \in Inst |-> IF i \in started THEN "idle" ELSE "off"]
    /\ cmdq = [i \in Inst |-> <<>>]
    /\ connected = [i \in Inst |-> TRUE]
    /\ nsent = 0
    /\ nruns = 0
    /\ run = [i \in Inst |-> NoRun]
    /\ statuses = [i \in Inst |-> <<>>]

\* one patcher process on the installation directory
Init == InitWith({"p1"})

\* two patcher processes on the installation directory
InitInstances == InitWith(Inst)

\* one patcher process, and a command the user interface has sent before the
\* core thread calls recv for the first time
InitQueued ==
    /\ lock = NoHolder
    /\ cacheFile \in {NoCache} \cup (1..MaxIndex)
    /\ pc = [i \in Inst |-> IF i = "p1" THEN "idle" ELSE "off"]
    /\ \E c \in PatcherCommand :
         cmdq = [i \in Inst |-> IF i = "p1" THEN <<Message(c, "unrecorded")>> ELSE <<>>]
    /\ connected = [i \in Inst |-> TRUE]
    /\ nsent = 0
    /\ nruns = 0
    /\ run = [i \in Inst |-> NoRun]
    /\ statuses = [i \in Inst |-> <<>>]

(***************************************************************************)
(* The user interface end of the command channel.                          *)
(***************************************************************************)
\* patching_thread_tx.send(command).  The channel carries the command only:
\* the history field `during` is left unrecorded.
Send(i, c) ==
    /\ connected[i]
    /\ Alive(i)
    /\ nsent < MaxCmds
    /\ cmdq' = Upd(cmdq, i, Append(cmdq[i], Message(c, "unrecorded")))
    /\ nsent' = nsent + 1
    /\ UNCHANGED <<lock, cacheFile, pc, connected, nruns, run, statuses>>

\* patching_thread_tx.send(command), with the history field `during` set to
\* what the core thread was doing at the send
SendDuring(i, c) ==
    /\ connected[i]
    /\ Alive(i)
    /\ nsent < MaxCmds
    /\ cmdq' = Upd(cmdq, i, Append(cmdq[i], Message(c, Stage(i))))
    /\ nsent' = nsent + 1
    /\ UNCHANGED <<lock, cacheFile, pc, connected, nruns, run, statuses>>

\* every Sender of the command channel is dropped
DropSender(i) ==
    /\ connected[i]
    /\ Alive(i)
    /\ nsent < MaxCmds
    /\ connected' = Upd(connected, i, FALSE)
    /\ nsent' = nsent + 1
    /\ UNCHANGED <<lock, cacheFile, pc, cmdq, nruns, run, statuses>>

(***************************************************************************)
(* patcher_thread_routine: the command loop.  Each action is one arm of    *)
(* the match on patching_thread_rx.recv().                                 *)
(***************************************************************************)
Receives(i, c) ==
    /\ pc[i] = "idle"
    /\ cmdq[i] # <<>>
    /\ Head(cmdq[i]).cmd = c
    /\ cmdq' = Upd(cmdq, i, Tail(cmdq[i]))

\* Ok(PatcherCommand::StartUpdate) => start_update(..)
start_update(i) ==
    /\ Receives(i, "StartUpdate")
    /\ statuses' = Upd(statuses, i,
           set_patching_in_progress(set_patching_in_progress(<<>>, TRUE), FALSE))
    /\ UNCHANGED <<lock, cacheFile, pc, connected, nsent, nruns, run>>

\* Ok(PatcherCommand::CancelUpdate) => {}
cancel_update_idle(i) ==
    /\ Receives(i, "CancelUpdate")
    /\ statuses' = Upd(statuses, i, <<>>)
    /\ UNCHANGED <<lock, cacheFile, pc, connected, nsent, nruns, run>>

\* Ok(PatcherCommand::ResetCache) => reset_cache(): remove_file may fail
reset_cache(i) ==
    /\ Receives(i, "ResetCache")
    /\ \E removed \in BOOLEAN :
           cacheFile' = IF removed THEN NoCache ELSE cacheFile
    /\ statuses' = Upd(statuses, i, <<>>)
    /\ UNCHANGED <<lock, pc, connected, nsent, nruns, run>>

\* Ok(PatcherCommand::ManualPatch) => manual_patch(..)
manual_patch(i) ==
    /\ Receives(i, "ManualPatch")
    /\ statuses' = Upd(statuses, i,
           set_patching_in_progress(set_patching_in_progress(<<>>, TRUE), FALSE))
    /\ UNCHANGED <<lock, cacheFile, pc, connected, nsent, nruns, run>>

\* Ok(PatcherCommand::Quit) => break
quit(i) ==
    /\ Receives(i, "Quit")
    /\ pc' = Upd(pc, i, "terminated")
    /\ statuses' = Upd(statuses, i, <<>>)
    /\ UNCHANGED <<lock, cacheFile, connected, nsent, nruns, run>>

\* Err(_) => dispatch Error("Channel disconnected"); break
channel_disconnected(i) ==
    /\ pc[i] = "idle"
    /\ cmdq[i] = <<>>
    /\ ~connected[i]
    /\ statuses' = Upd(statuses, i,
           dispatch_patching_status(<<>>, Error("Channel disconnected", "")))
    /\ pc' = Upd(pc, i, "terminated")
    /\ UNCHANGED <<lock, cacheFile, cmdq, connected, nsent, nruns, run>>

(***************************************************************************)
(* The update lock.                                                        *)
(***************************************************************************)
\* a try_lock that succeeds whoever holds the lock
try_lock_always(holder) == TRUE

\* lock_file.try_lock(FileLockMode::Exclusive) succeeds when nobody holds it
try_lock(holder) == holder = NoHolder

\* a take_update_lock that does not look at the lock
take_update_lock_unlocked(holder, created) == created

\* take_update_lock: File::create, then try_lock
take_update_lock(holder, created) == created /\ try_lock(holder)

\* a scope guard that does not unlock
unlock_never(holder, i) == holder

\* lock_file.unlock() in the scope guard
unlock(holder, i) == IF holder = i THEN NoHolder ELSE holder

(***************************************************************************)
(* update_game.  It has no caller in core.rs (start_update does not call   *)
(* it); the model lets the core thread call it between two commands.       *)
(***************************************************************************)
\* update_game up to the call of interruptible_update_routine
update_game(i) ==
    /\ pc[i] = "idle"
    /\ nruns < MaxRuns
    /\ nruns' = nruns + 1
    /\ \E created \in BOOLEAN :
        IF take_update_lock(lock, created)
        THEN /\ lock' = i
             /\ statuses' = Upd(statuses, i, set_patching_in_progress(<<>>, TRUE))
             /\ pc' = Upd(pc, i, "find_preferred")
             /\ run' = Upd(run, i, NoRun)
        ELSE /\ statuses' = Upd(statuses, i, dispatch_patching_status(<<>>,
                                Error("Failed to take the update lock", "")))
             /\ UNCHANGED <<lock, pc, run>>
    /\ UNCHANGED <<cacheFile, cmdq, connected, nsent>>

(***************************************************************************)
(* find_available_patch_server.  A probe fails or returns the patch list   *)
(* of the server.                                                          *)
(***************************************************************************)
ProbeOutcome ==
    {[ok |-> FALSE, list |-> <<>>]} \cup {[ok |-> TRUE, list |-> l] : l \in ThorPatchList}

\* a search that skips the preferred server
preferred_ignored(cfg) == 0

\* server_list.iter().find(|s| &s.name == preferred_server_name)
preferred_server(cfg) ==
    IF cfg.preferred # 0 /\ cfg.preferred <= cfg.server_count THEN cfg.preferred ELSE 0

\* the first part: probe the preferred server if it is specified and in the list
find_preferred(i) ==
    /\ pc[i] = "find_preferred"
    /\ \E cfg \in WebConfiguration :
       LET s == preferred_server(cfg)
           r == [run[i] EXCEPT !.web = cfg]
       IN  IF s # 0
           THEN \E o \in ProbeOutcome :
                  IF o.ok
                  THEN /\ run' = Upd(run, i, [r EXCEPT !.probed = Append(@, s),
                                                       !.mirror_list = o.list])
                       /\ pc' = Upd(pc, i, "read_cache")
                  ELSE /\ run' = Upd(run, i, [r EXCEPT !.probed = Append(@, s),
                                                       !.loop_idx = 1])
                       /\ pc' = Upd(pc, i, "find_loop")
           ELSE /\ run' = Upd(run, i, [r EXCEPT !.loop_idx = 1])
                /\ pc' = Upd(pc, i, "find_loop")
    /\ UNCHANGED <<lock, cacheFile, cmdq, connected, nsent, nruns, statuses>>

\* one iteration of `for server in server_list`, or the end of the loop
find_loop(i) ==
    /\ pc[i] = "find_loop"
    /\ IF run[i].loop_idx > run[i].web.server_count
       THEN /\ run' = Upd(run, i, [run[i] EXCEPT !.res =
                   Err("None of the patch servers are available at the moment", "")])
            /\ pc' = Upd(pc, i, "update_exit")
            /\ UNCHANGED cmdq
       ELSE LET poll == process_incoming_commands(cmdq[i], connected[i])
            IN  /\ cmdq' = Upd(cmdq, i, poll.rest)
                /\ IF poll.res = "Interrupted"
                   THEN \* Ok((ThorPatchList::new(), Url::parse("").unwrap())):
                        \* Url::parse("") is an Err, unwrap panics
                        /\ pc' = Upd(pc, i, "panic")
                        /\ run' = Upd(run, i, [run[i] EXCEPT !.observed =
                                        try_recv(cmdq[i], connected[i]).msg])
                   ELSE \E o \in ProbeOutcome :
                          IF o.ok
                          THEN /\ run' = Upd(run, i, [run[i] EXCEPT
                                          !.probed = Append(@, run[i].loop_idx),
                                          !.mirror_list = o.list])
                               /\ pc' = Upd(pc, i, "read_cache")
                          ELSE /\ run' = Upd(run, i, [run[i] EXCEPT
                                          !.probed = Append(@, run[i].loop_idx),
                                          !.loop_idx = @ + 1])
                               /\ pc' = Upd(pc, i, "find_loop")
    /\ UNCHANGED <<lock, cacheFile, connected, nsent, nruns, statuses>>

\* A panic of the core thread under the scope guard.  With unwinding the guard
\* runs (unlock, Ready) and the thread ends; with panic = "abort" the process
\* ends and the system drops its lock.
panic(i) ==
    /\ pc[i] = "panic"
    /\ lock' = unlock(lock, i)
    /\ \E strategy \in {"unwind", "abort"} :
        IF strategy = "unwind"
        THEN /\ statuses' = Upd(statuses, i, set_patching_in_progress(statuses[i], FALSE))
             /\ pc' = Upd(pc, i, "panicked")
        ELSE /\ pc' = Upd(pc, i, "aborted")
             /\ UNCHANGED statuses
    /\ run' = Upd(run, i, NoRun)
    /\ UNCHANGED <<cacheFile, cmdq, connected, nsent, nruns>>

(***************************************************************************)
(* interruptible_update_routine: the cache filter.                         *)
(***************************************************************************)
\* patch_list.iter().any(|x| x.index == patcher_cache.last_patch_index)
should_filter_patch_list(list, last_patch_index) ==
    \E k \in DOMAIN list : list[k].index = last_patch_index

\* a retain that keeps the older entries
retain_older(list, last_patch_index) ==
    LET Older(x) == x.index < last_patch_index IN SelectSeq(list, Older)

\* a retain that keeps the entry of the cached index
retain_from(list, last_patch_index) ==
    LET From(x) == x.index >= last_patch_index IN SelectSeq(list, From)

\* patch_list.retain(|x| x.index > patcher_cache.last_patch_index)
retain(list, last_patch_index) ==
    LET Newer(x) == x.index > last_patch_index IN SelectSeq(list, Newer)

\* read_cache_file: Err when the file is absent or corrupt
read_cache_file(file) == [ok |-> file # NoCache, last_patch_index |-> file]

\* the patch list after `if let Ok(patcher_cache) = read_cache_file(..)`
filter_patch_list(list, file) ==
    LET c == read_cache_file(file)
    IN  IF c.ok /\ should_filter_patch_list(list, c.last_patch_index)
        THEN retain(list, c.last_patch_index)
        ELSE list

\* find_available_patch_server has returned Ok: resolve the cache path, read the
\* cache, filter, create the temporary directory
read_cache(i) ==
    /\ pc[i] = "read_cache"
    /\ \E cache_file_path \in BOOLEAN, tmp_dir \in BOOLEAN :
        LET r == [run[i] EXCEPT !.web = NoWeb, !.loop_idx = 0, !.probed = <<>>]
            f == [r EXCEPT !.cache_read = cacheFile,
                           !.recorded = cacheFile,
                           !.filtered = read_cache_file(cacheFile).ok /\
                               should_filter_patch_list(run[i].mirror_list, cacheFile),
                           !.patch_list = filter_patch_list(run[i].mirror_list, cacheFile)]
        IN  IF ~cache_file_path
            THEN /\ run' = Upd(run, i, [r EXCEPT !.res =
                            Err("Failed to resolve patcher name", "")])
                 /\ pc' = Upd(pc, i, "update_exit")
            ELSE IF ~tmp_dir
            THEN /\ run' = Upd(run, i, [f EXCEPT !.res =
                            Err("Failed to create temporary directory", "")])
                 /\ pc' = Upd(pc, i, "update_exit")
            ELSE /\ run' = Upd(run, i, f)
                 /\ pc' = Upd(pc, i, "download")
    /\ UNCHANGED <<lock, cacheFile, cmdq, connected, nsent, nruns, statuses>>

(***************************************************************************)
(* download_patches_concurrent.  tokio::select! polls its two branches in  *)
(* a random order.  wait_for_cancellation calls the blocking               *)
(* Receiver::recv: once it is polled the core thread waits in recv and the *)
(* futures of the other branch are polled no more.  How far one poll of    *)
(* download_patches_concurrent_inner gets depends on the readiness of its  *)
(* input and output, which the model leaves open.                          *)
(***************************************************************************)
\* what a download ends with: the transfer failed, or the archive is on disk
\* with a valid, absent, invalid or unreadable integrity record
DownloadOutcome == {"failed", "valid", "no_record", "invalid", "bad_record"}

\* an is_archive_valid that takes an archive without integrity record for invalid
is_archive_valid_strict(o) ==
    CASE o = "valid" -> "true"
      [] o = "no_record" -> "false"
      [] o = "invalid" -> "false"
      [] OTHER -> "err"

\* is_archive_valid: Ok(true), Ok(false) or Err
is_archive_valid(o) ==
    CASE o = "valid" -> "true"
      [] o = "no_record" -> "true"
      [] o = "invalid" -> "false"
      [] OTHER -> "err"

\* the download future returns Ok(PendingPatch)
accepted(ensure_integrity, o) ==
    /\ o # "failed"
    /\ (ensure_integrity => is_archive_valid(o) = "true")

\* the message of the Err the download future returns
download_error(o) ==
    CASE o = "failed" -> "Failed to download patches: Failed to download file"
      [] is_archive_valid(o) = "false" -> "Failed to download patches: Archive is corrupt"
      [] OTHER -> "Failed to download patches: Failed to check archive's integrity"

\* the vector left in completion order
unsorted(v) == v

\* the place of v[k] once v is sorted by index
RankByIndex(v, k) ==
    1 + Cardinality({j \in DOMAIN v : \/ v[j].index < v[k].index
                                      \/ v[j].index = v[k].index /\ j < k})

\* vec.sort_unstable_by(|l, r| l.info.index.cmp(&r.info.index))
sort_unstable_by_index(v) ==
    [r \in DOMAIN v |-> v[CHOOSE k \in DOMAIN v : RankByIndex(v, k) = r]]

Running(i) == {k \in DOMAIN run[i].dl : run[i].dl[k] = "running"}
Queued(i) == {k \in DOMAIN run[i].dl : run[i].dl[k] = "queued"}

\* a buffer that takes every future of the stream at once
CanStartUnbounded(i) == Queued(i) # {}

\* buffer_unordered(CONCURRENT_DOWNLOADS) can take one more future of the stream
CanStart(i) == Queued(i) # {} /\ Cardinality(Running(i)) < CONCURRENT_DOWNLOADS

Min(S) == CHOOSE x \in S : \A y \in S : x <= y

\* entry: the first status, then select! picks the branch it polls first
download_patches_concurrent(i) ==
    /\ pc[i] = "download"
    /\ statuses' = Upd(statuses, i, dispatch_patching_status(statuses[i],
                       DownloadInProgress(0, Len(run[i].patch_list), 0)))
    /\ \E ensure_integrity \in BOOLEAN :
         run' = Upd(run, i, [run[i] EXCEPT
                   !.mirror_list = <<>>,
                   !.ensure_integrity = ensure_integrity,
                   !.dl = [k \in DOMAIN run[i].patch_list |-> "queued"]])
    /\ \E first \in {"cancel", "download"} :
         pc' = Upd(pc, i, IF first = "cancel" THEN "wait_for_cancellation"
                                              ELSE "download_poll")
    /\ UNCHANGED <<lock, cacheFile, cmdq, connected, nsent, nruns>>

\* buffer_unordered takes the next future of the stream, in list order
download_start(i) ==
    /\ pc[i] = "download_poll"
    /\ CanStart(i)
    /\ run' = Upd(run, i, [run[i] EXCEPT !.dl[Min(Queued(i))] = "running"])
    /\ UNCHANGED <<lock, cacheFile, pc, cmdq, connected, nsent, nruns, statuses>>

\* a progress_callback that counts the downloads in progress as downloaded
download_progress_started(i, k) ==
    /\ pc[i] = "download_poll"
    /\ ~CanStart(i)
    /\ k \in Running(i)
    /\ run[i].ticks < MaxTicks
    /\ run' = Upd(run, i, [run[i] EXCEPT !.ticks = @ + 1])
    /\ statuses' = Upd(statuses, i, dispatch_patching_status(statuses[i],
                       DownloadInProgress(Len(run[i].vec) + Cardinality(Running(i)),
                                          Len(run[i].patch_list), 1)))
    /\ UNCHANGED <<lock, cacheFile, pc, cmdq, connected, nsent, nruns>>

\* progress_callback after a chunk, when a second has elapsed
download_progress(i, k) ==
    /\ pc[i] = "download_poll"
    /\ ~CanStart(i)
    /\ k \in Running(i)
    /\ run[i].ticks < MaxTicks
    /\ run' = Upd(run, i, [run[i] EXCEPT !.ticks = @ + 1])
    /\ statuses' = Upd(statuses, i, dispatch_patching_status(statuses[i],
                       DownloadInProgress(Len(run[i].vec), Len(run[i].patch_list), 1)))
    /\ UNCHANGED <<lock, cacheFile, pc, cmdq, connected, nsent, nruns>>

\* a try_collect that goes on with the other downloads after an Err
download_finish_skip_failed(i, k, o) ==
    /\ pc[i] = "download_poll"
    /\ ~CanStart(i)
    /\ k \in Running(i)
    /\ IF accepted(run[i].ensure_integrity, o)
       THEN run' = Upd(run, i, [run[i] EXCEPT
                       !.dl[k] = "done",
                       !.vec = Append(@, run[i].patch_list[k])])
       ELSE run' = Upd(run, i, [run[i] EXCEPT !.dl[k] = "failed"])
    /\ UNCHANGED <<lock, cacheFile, pc, cmdq, connected, nsent, nruns, statuses>>

\* the download future of patch k completes with outcome o: Ok(PendingPatch),
\* or the Err that try_collect returns at once
download_finish(i, k, o) ==
    /\ pc[i] = "download_poll"
    /\ ~CanStart(i)
    /\ k \in Running(i)
    /\ IF accepted(run[i].ensure_integrity, o)
       THEN /\ run' = Upd(run, i, [run[i] EXCEPT
                       !.dl[k] = "done",
                       !.vec = Append(@, run[i].patch_list[k])])
            /\ UNCHANGED pc
       ELSE /\ run' = Upd(run, i, [run[i] EXCEPT
                       !.dl[k] = "failed",
                       !.res = Err(download_error(o), run[i].patch_list[k].file_name)])
            /\ pc' = Upd(pc, i, "update_exit")
    /\ UNCHANGED <<lock, cacheFile, cmdq, connected, nsent, nruns, statuses>>

\* try_collect is complete: sort the vector and return it
download_return(i) ==
    /\ pc[i] = "download_poll"
    /\ Len(run[i].vec) = Len(run[i].patch_list)
    /\ run' = Upd(run, i, [run[i] EXCEPT
                   !.patch_list = <<>>, !.dl = <<>>, !.ticks = 0,
                   !.ensure_integrity = FALSE,
                   !.pending_patch_queue = sort_unstable_by_index(run[i].vec)])
    /\ pc' = Upd(pc, i, "apply_patches")
    /\ UNCHANGED <<lock, cacheFile, cmdq, connected, nsent, nruns, statuses>>

\* the poll of the download branch returns Pending: the cancellation branch is
\* polled and blocks the thread in recv
download_pending(i) ==
    /\ pc[i] = "download_poll"
    /\ ~CanStart(i)
    /\ Running(i) # {}
    /\ pc' = Upd(pc, i, "wait_for_cancellation")
    /\ UNCHANGED <<lock, cacheFile, cmdq, connected, nsent, nruns, run, statuses>>

\* Receiver::recv once it returns: a queued message first, else Err
recv(q) == IF q # <<>> THEN Head(q).cmd ELSE "Disconnected"

\* a cancellation that hands over the patches collected so far
wait_for_cancellation_collect(i) ==
    /\ pc[i] = "wait_for_cancellation"
    /\ \/ cmdq[i] # <<>> /\ cmdq' = Upd(cmdq, i, Tail(cmdq[i]))
       \/ cmdq[i] = <<>> /\ ~connected[i] /\ UNCHANGED cmdq
    /\ run' = Upd(run, i, [run[i] EXCEPT
                   !.observed = recv(cmdq[i]),
                   !.pending_patch_queue = sort_unstable_by_index(run[i].vec)])
    /\ pc' = Upd(pc, i, "apply_patches")
    /\ UNCHANGED <<lock, cacheFile, connected, nsent, nruns, statuses>>

\* cancellation.rs: wait_for_cancellation: recv returns a command or Err
wait_for_cancellation(i) ==
    /\ pc[i] = "wait_for_cancellation"
    /\ \/ cmdq[i] # <<>> /\ cmdq' = Upd(cmdq, i, Tail(cmdq[i]))
       \/ cmdq[i] = <<>> /\ ~connected[i] /\ UNCHANGED cmdq
    /\ run' = Upd(run, i, [run[i] EXCEPT
                   !.res = Err("Patching was canceled", ""),
                   !.observed = recv(cmdq[i])])
    /\ pc' = Upd(pc, i, "update_exit")
    /\ UNCHANGED <<lock, cacheFile, connected, nsent, nruns, statuses>>

(***************************************************************************)
(* apply_patches.                                                          *)
(***************************************************************************)
\* the patch of the current loop iteration
pending_patch(i) == run[i].pending_patch_queue[run[i].patch_number + 1]

\* entry: env::current_dir, then the first status
apply_patches(i) ==
    /\ pc[i] = "apply_patches"
    /\ \E current_dir \in BOOLEAN :
        IF current_dir
        THEN /\ statuses' = Upd(statuses, i, dispatch_patching_status(statuses[i],
                                InstallationInProgress(0, Len(run[i].pending_patch_queue))))
             /\ pc' = Upd(pc, i, "apply_poll")
             /\ UNCHANGED run
        ELSE /\ run' = Upd(run, i, [run[i] EXCEPT !.res = Err(
                     "Failed to apply patches: Failed to resolve current working directory", "")])
             /\ pc' = Upd(pc, i, "update_exit")
             /\ UNCHANGED statuses
    /\ UNCHANGED <<lock, cacheFile, cmdq, connected, nsent, nruns>>

\* a loop that has started on the patch when it looks at the channel
apply_poll_after_call(i) ==
    /\ pc[i] = "apply_poll"
    /\ IF run[i].patch_number = Len(run[i].pending_patch_queue)
       THEN /\ run' = Upd(run, i, [run[i] EXCEPT !.res = Ok])
            /\ pc' = Upd(pc, i, "update_exit")
            /\ UNCHANGED cmdq
       ELSE LET poll == process_incoming_commands(cmdq[i], connected[i])
            IN  /\ cmdq' = Upd(cmdq, i, poll.rest)
                /\ IF poll.res = "Interrupted"
                   THEN /\ run' = Upd(run, i, [run[i] EXCEPT
                                   !.res = Ok,
                                   !.applyLog = Append(@, pending_patch(i).index),
                                   !.observed = try_recv(cmdq[i], connected[i]).msg])
                        /\ pc' = Upd(pc, i, "update_exit")
                   ELSE /\ run' = Upd(run, i, [run[i] EXCEPT
                                   !.applyLog = Append(@, pending_patch(i).index)])
                        /\ pc' = Upd(pc, i, "apply_patch")
    /\ UNCHANGED <<lock, cacheFile, connected, nsent, nruns, statuses>>

\* head of a loop iteration: process_incoming_commands, then apply_patch is called
apply_poll(i) ==
    /\ pc[i] = "apply_poll"
    /\ IF run[i].patch_number = Len(run[i].pending_patch_queue)
       THEN /\ run' = Upd(run, i, [run[i] EXCEPT !.res = Ok])
            /\ pc' = Upd(pc, i, "update_exit")
            /\ UNCHANGED cmdq
       ELSE LET poll == process_incoming_commands(cmdq[i], connected[i])
            IN  /\ cmdq' = Upd(cmdq, i, poll.rest)
                /\ IF poll.res = "Interrupted"
                   THEN /\ run' = Upd(run, i, [run[i] EXCEPT
                                   !.res = Ok,
                                   !.observed = try_recv(cmdq[i], connected[i]).msg])
                        /\ pc' = Upd(pc, i, "update_exit")
                   ELSE /\ run' = Upd(run, i, [run[i] EXCEPT
                                   !.applyLog = Append(@, pending_patch(i).index)])
                        /\ pc' = Upd(pc, i, "apply_patch")
    /\ UNCHANGED <<lock, cacheFile, connected, nsent, nruns, statuses>>

\* an apply_patches that goes on to the cache write when apply_patch failed
apply_patch_unchecked(i) ==
    /\ pc[i] = "apply_patch"
    /\ \E applied \in BOOLEAN :
         run' = Upd(run, i, [run[i] EXCEPT
                   !.applied = IF applied THEN @ \cup {pending_patch(i).index} ELSE @])
    /\ pc' = Upd(pc, i, "write_cache_file")
    /\ UNCHANGED <<lock, cacheFile, cmdq, connected, nsent, nruns, statuses>>

\* an apply_patches that skips a patch whose apply_patch failed and goes on
apply_patch_continue(i) ==
    /\ pc[i] = "apply_patch"
    /\ \E applied \in BOOLEAN :
        IF applied
        THEN /\ run' = Upd(run, i, [run[i] EXCEPT
                        !.applied = @ \cup {pending_patch(i).index}])
             /\ pc' = Upd(pc, i, "write_cache_file")
        ELSE /\ run' = Upd(run, i, [run[i] EXCEPT !.patch_number = @ + 1])
             /\ pc' = Upd(pc, i, "apply_poll")
    /\ UNCHANGED <<lock, cacheFile, cmdq, connected, nsent, nruns, statuses>>

\* apply_patch returns
apply_patch(i) ==
    /\ pc[i] = "apply_patch"
    /\ \E applied \in BOOLEAN :
        IF applied
        THEN /\ run' = Upd(run, i, [run[i] EXCEPT
                        !.applied = @ \cup {pending_patch(i).index}])
             /\ pc' = Upd(pc, i, "write_cache_file")
        ELSE /\ run' = Upd(run, i, [run[i] EXCEPT !.res =
                        Err("Failed to apply patches: Failed to apply patch",
                            pending_patch(i).file_name)])
             /\ pc' = Upd(pc, i, "update_exit")
    /\ UNCHANGED <<lock, cacheFile, cmdq, connected, nsent, nruns, statuses>>

\* write_cache_file: the file holds the new index, or on failure what it held
write_cache_file(file, last_patch_index, written) ==
    IF written THEN last_patch_index ELSE file

\* an iteration that writes the position of the patch in the queue
update_cache_by_position(i) ==
    /\ pc[i] = "write_cache_file"
    /\ \E written \in BOOLEAN :
         /\ cacheFile' = write_cache_file(cacheFile, 1 + run[i].patch_number, written)
         /\ run' = Upd(run, i, [run[i] EXCEPT
                        !.recorded = IF written THEN pending_patch(i).index ELSE @,
                        !.patch_number = @ + 1])
    /\ statuses' = Upd(statuses, i, dispatch_patching_status(statuses[i],
           InstallationInProgress(1 + run[i].patch_number, Len(run[i].pending_patch_queue))))
    /\ pc' = Upd(pc, i, "apply_poll")
    /\ UNCHANGED <<lock, cmdq, connected, nsent, nruns>>

\* rest of a loop iteration: write the cache, dispatch the status
update_cache(i) ==
    /\ pc[i] = "write_cache_file"
    /\ \E written \in BOOLEAN :
         /\ cacheFile' = write_cache_file(cacheFile, pending_patch(i).index, written)
         /\ run' = Upd(run, i, [run[i] EXCEPT
                        !.recorded = IF written THEN pending_patch(i).index ELSE @,
                        !.patch_number = @ + 1])
    /\ statuses' = Upd(statuses, i, dispatch_patching_status(statuses[i],
           InstallationInProgress(1 + run[i].patch_number, Len(run[i].pending_patch_queue))))
    /\ pc' = Upd(pc, i, "apply_poll")
    /\ UNCHANGED <<lock, cmdq, connected, nsent, nruns>>

(***************************************************************************)
(* update_game after interruptible_update_routine has returned: the status *)
(* of the result, then the scope guard (unlock, Ready).                    *)
(***************************************************************************)
update_exit(i) ==
    /\ pc[i] = "update_exit"
    /\ statuses' = Upd(statuses, i,
           set_patching_in_progress(
               dispatch_patching_status(statuses[i],
                   IF run[i].res.kind = "err"
                   THEN Error(run[i].res.text, run[i].res.file) ELSE Ready),
               FALSE))
    /\ lock' = unlock(lock, i)
    /\ run' = Upd(run, i, NoRun)
    /\ pc' = Upd(pc, i, "idle")
    /\ UNCHANGED <<cacheFile, cmdq, connected, nsent, nruns>>

(***************************************************************************)
(* apply_single_patch.  Like update_game it has no caller in core.rs.      *)
(***************************************************************************)
\* up to the scope guard
apply_single_patch(i) ==
    /\ pc[i] = "idle"
    /\ nruns < MaxRuns
    /\ nruns' = nruns + 1
    /\ \E created \in BOOLEAN :
        IF take_update_lock(lock, created)
        THEN /\ lock' = i
             /\ statuses' = Upd(statuses, i, set_patching_in_progress(<<>>, TRUE))
             /\ pc' = Upd(pc, i, "single_patch")
        ELSE /\ statuses' = Upd(statuses, i, dispatch_patching_status(<<>>,
                                Error("Failed to take the update lock", "")))
             /\ UNCHANGED <<lock, pc>>
    /\ UNCHANGED <<cacheFile, cmdq, connected, nsent, run>>

\* current_dir, apply_patch, the status of the result, then the scope guard
single_patch_exit(i) ==
    /\ pc[i] = "single_patch"
    /\ \E current_dir \in BOOLEAN, applied \in BOOLEAN, k \in 1..MaxIndex :
         statuses' = Upd(statuses, i,
           set_patching_in_progress(
               dispatch_patching_status(statuses[i],
                   IF ~current_dir
                   THEN Error("Failed to resolve current working directory", "")
                   ELSE IF ~applied THEN Error("Failed to apply patch", FileNames[k])
                   ELSE ManualPatchApplied(FileNames[k])),
               FALSE))
    /\ lock' = unlock(lock, i)
    /\ pc' = Upd(pc, i, "idle")
    /\ UNCHANGED <<cacheFile, cmdq, connected, nsent, nruns, run>>

(***************************************************************************)
(* Steps and results of apply_patches.                                     *)
(***************************************************************************)
\* apply_patches has completed the iteration of a patch: cache written (or the
\* failure logged) and the status dispatched
ApplyStep(i) == pc[i] = "write_cache_file" /\ pc'[i] = "apply_poll"

\* apply_patches has returned the error of apply_patch
ApplyFailed(i) ==
    /\ pc[i] = "update_exit"
    /\ run[i].res = Err("Failed to apply patches: Failed to apply patch", run[i].res.file)

Range(s) == {s[k] : k \in DOMAIN s}

Ascending(s) == \A a, b \in DOMAIN s : a < b => s[a] < s[b]

(***************************************************************************)
(* Properties.                                                             *)
(***************************************************************************)
\* C1: whatever the patch list and the completion order of the downloads, the
\* patches download_patches_concurrent hands over are applied one at a time
\* in strictly ascending index order: the calls of apply_patch of a run follow
\* the queue, the queue holds the downloaded patches, and each call is for a
\* greater index than the call before it.
C1_AscendingApplyOrder ==
    \A i \in Inst :
        /\ Ascending(run[i].applyLog)
        /\ Len(run[i].applyLog) \in {run[i].patch_number, run[i].patch_number + 1}
        /\ Len(run[i].applyLog) = run[i].patch_number + 1 <=> pc[i] \in {"apply_patch", "write_cache_file"} \/ ApplyFailed(i)
        /\ \A k \in DOMAIN run[i].applyLog :
               run[i].applyLog[k] = run[i].pending_patch_queue[k].index
        /\ run[i].pending_patch_queue # <<>> =>
               Range(run[i].pending_patch_queue) = Range(run[i].vec)

\* two patches completed their downloads in descending index order and both
\* have been handed to apply_patch
C1_Witness ==
    \E i \in Inst :
        /\ Len(run[i].applyLog) = 2
        /\ Len(run[i].vec) = 2
        /\ run[i].vec[1].index > run[i].vec[2].index

\* the patches of the run for which apply_patch has not returned success
Unapplied(i) ==
    (Indices(run[i].patch_list) \cup Indices(run[i].vec)
        \cup Indices(run[i].pending_patch_queue)) \ run[i].applied

\* C2: in every state of an update run the persisted last_patch_index is not
\* the index of a patch of the run for which apply_patch has not returned
\* success (not attempted, only downloaded, in flight or failed).
C2_CacheNeverAhead ==
    \A i \in Inst : cacheFile \notin Unapplied(i)

\* the cache holds the index of the first patch while apply_patch runs for
\* the second
C2_Witness ==
    \E i \in Inst :
        /\ pc[i] = "apply_patch"
        /\ Len(run[i].applyLog) = 2
        /\ cacheFile = run[i].applyLog[1]
        /\ Unapplied(i) = {run[i].applyLog[2]}

\* C3 as stated: no completed apply step leaves the persisted last_patch_index
\* lower than it was before the step, for every cache value and mirror list.
C3_Monotone ==
    [][\A i \in Inst : ApplyStep(i) => cacheFile' >= cacheFile]_vars

\* C3: no completed apply step of a run leaves the persisted last_patch_index
\* lower than it was before the step, when the cache file could not be read
\* at the start of the run or the cached index was in the mirror list.
C3_MonotoneWhenFiltered ==
    [][\A i \in Inst :
          ApplyStep(i) /\ (run[i].cache_read = NoCache \/ run[i].filtered)
              => cacheFile' >= cacheFile]_vars

\* a run whose list was filtered has completed an apply step that advanced
\* the cache past the value read at the start
C3_Witness ==
    \E i \in Inst :
        /\ pc[i] = "apply_poll"
        /\ run[i].filtered
        /\ run[i].patch_number >= 1
        /\ cacheFile = run[i].pending_patch_queue[run[i].patch_number].index
        /\ cacheFile > run[i].cache_read

\* the patch of the iteration apply_patches has just completed
last_applied(i) == run[i].pending_patch_queue[run[i].patch_number]

\* an iteration is complete and the next has not started
BetweenPatches(i) == pc[i] = "apply_poll" /\ run[i].patch_number >= 1

\* C4 as stated: after apply_patch succeeded for p and before the next patch
\* is started the persisted last_patch_index is at least p.index, whatever
\* write_cache_file returned.
C4_CacheAtLeastApplied ==
    \A i \in Inst : BetweenPatches(i) => cacheFile >= last_applied(i).index

\* C4: after apply_patch succeeded for p and before the next patch is
\* started the persisted last_patch_index is p.index when write_cache_file
\* succeeded for p, and when it failed it is the index of the last patch of
\* the run whose write succeeded (the value read at the start of the run when
\* there is none); in both cases unless the cache file has been removed since.
C4_CacheRecordsWritten ==
    \A i \in Inst :
        BetweenPatches(i) =>
            /\ cacheFile \in {run[i].recorded, NoCache}
            /\ run[i].recorded # last_applied(i).index =>
                   run[i].recorded \in {run[i].cache_read} \cup
                       {run[i].pending_patch_queue[k].index : k \in 1..(run[i].patch_number - 1)}

\* the second of two patches has been applied and recorded in the cache, and
\* its status dispatched
C4_Witness ==
    \E i \in Inst :
        /\ BetweenPatches(i)
        /\ run[i].patch_number = 2
        /\ cacheFile = last_applied(i).index
        /\ statuses[i][Len(statuses[i])] = InstallationInProgress(2, 2)

\* apply_patch was called for a patch only after it had returned success for
\* every patch called before
AttemptedAfterSuccess(i) ==
    \A k \in 1..(Len(run[i].applyLog) - 1) : run[i].applyLog[k] \in run[i].applied

\* C5 as stated: when apply_patch fails, no later patch is attempted, the
\* error carries the file_name of the patch, and the persisted
\* last_patch_index is the index of the patch applied before it (the value
\* read at the start of the run when there is none).
C5_FailureKeepsPrevious ==
    \A i \in Inst :
        /\ AttemptedAfterSuccess(i)
        /\ ApplyFailed(i) =>
            /\ Len(run[i].applyLog) = run[i].patch_number + 1
            /\ run[i].res.file = run[i].pending_patch_queue[run[i].patch_number + 1].file_name
            /\ cacheFile = IF run[i].patch_number = 0 THEN run[i].cache_read
                           ELSE last_applied(i).index

\* C5: when apply_patch fails, no later patch is attempted, the error carries
\* the file_name of the patch, and the persisted last_patch_index is the
\* index of the last patch of the run whose write_cache_file succeeded (the
\* value read at the start of the run when there is none), unless the cache
\* file has been removed since.
C5_FailureKeepsRecorded ==
    \A i \in Inst :
        /\ AttemptedAfterSuccess(i)
        /\ ApplyFailed(i) =>
            /\ Len(run[i].applyLog) = run[i].patch_number + 1
            /\ run[i].applied = {run[i].applyLog[k] : k \in 1..run[i].patch_number}
            /\ run[i].res.file = run[i].pending_patch_queue[run[i].patch_number + 1].file_name
            /\ cacheFile \in {run[i].recorded, NoCache}
            /\ run[i].recorded \in {run[i].cache_read} \cup run[i].applied

\* apply_patch failed for the second of two patches; the first is recorded
C5_Witness ==
    \E i \in Inst :
        /\ ApplyFailed(i)
        /\ run[i].patch_number = 1
        /\ Len(run[i].pending_patch_queue) = 2
        /\ cacheFile = last_applied(i).index

\* C6: the patches interruptible_update_routine passes on are the entries of
\* the mirror list L above the cached index c when an entry of L has index
\* c, and all of L when none has or the cache file cannot be read.
C6_FilteredSet ==
    \A i \in Inst :
        pc[i] = "download" =>
            LET L == Range(run[i].mirror_list)
                c == run[i].cache_read
            IN  Range(run[i].patch_list) =
                    IF c # NoCache /\ (\E p \in L : p.index = c)
                    THEN {p \in L : p.index > c}
                    ELSE L

\* the cached index is in the mirror list and a newer entry is passed on
C6_Witness ==
    \E i \in Inst :
        /\ pc[i] = "download"
        /\ run[i].cache_read \in Indices(run[i].mirror_list)
        /\ Len(run[i].patch_list) = 1
        /\ Len(run[i].mirror_list) = 2

\* C7: at most one patcher process is between a successful take_update_lock
\* and the release of the lock, and that process is the holder of the lock.
C7_MutualExclusion ==
    /\ Cardinality({i \in Inst : UnderLock(i)}) <= 1
    /\ \A i \in Inst : UnderLock(i) => lock = i

\* one process applies a patch while the other was refused the lock
C7_Witness ==
    /\ pc["p1"] = "apply_patch"
    /\ pc["p2"] = "idle"
    /\ statuses["p2"] = <<Error("Failed to take the update lock", "")>>

\* C8: a core thread that is not inside update_game or apply_single_patch
\* does not hold the lock: every exit path (completion, error, cancellation)
\* has unlocked it.
C8_LockReleased ==
    \A i \in Inst : ~UnderLock(i) => lock # i

\* the controller is idle after a canceled run: the Error, then Ready
C8_Witness ==
    \E i \in Inst :
        /\ pc[i] = "idle"
        /\ lock = NoHolder
        /\ Len(statuses[i]) >= 3
        /\ statuses[i][Len(statuses[i]) - 1] = Error("Patching was canceled", "")
        /\ statuses[i][Len(statuses[i])] = Ready

\* C9: a call of update_game while another process holds the lock dispatches
\* the Error status and nothing else: no stage starts, the cache is as it
\* was, and the lock and the run of the holder are as they were.
C9_LockHeldElsewhere ==
    [][\A i \in Inst :
          update_game(i) /\ lock \notin {NoHolder, i}
              => /\ statuses' = Upd(statuses, i,
                        <<Error("Failed to take the update lock", "")>>)
                 /\ UNCHANGED <<lock, cacheFile, pc, run, cmdq, connected>>]_vars

\* a process was refused the lock another process holds in its apply stage,
\* and the holder went on to the next patch
C9_Witness ==
    \E i, j \in Inst :
        /\ statuses[i] = <<Error("Failed to take the update lock", "")>>
        /\ pc[i] = "idle"
        /\ lock = j
        /\ pc[j] = "write_cache_file"
        /\ run[j].patch_number = 1

\* C10 as stated: on StartUpdate the idle controller takes the update lock and
\* enters the pipeline (or reports that the lock cannot be taken).
C10_StartUpdateRunsPipeline ==
    [][\A i \in Inst :
          start_update(i)
              => \/ pc'[i] = "find_preferred" /\ lock' = i
                 \/ statuses'[i] = <<Error("Failed to take the update lock", "")>>]_vars

(***************************************************************************)
(* Commands and cancellation.                                              *)
(***************************************************************************)
\* the commands process_incoming_commands lets pass
NonCancel == {"StartUpdate", "ManualPatch", "ResetCache"}

\* the core thread of i takes the message at the head of its channel
Consumes(i) == cmdq[i] # <<>> /\ cmdq'[i] = Tail(cmdq[i])

\* interruptible_update_routine has returned the error of an Interrupted stage
Canceled(i) == pc[i] = "update_exit" /\ run[i].res = Err("Patching was canceled", "")

\* C11 as stated: a StartUpdate, ManualPatch or ResetCache that was sent during
\* an update and that a stage of the update takes from the channel does not
\* end the stage: the stage goes on (to its probe, its downloads, its
\* apply_patch call).
C11_NonCancelDoesNotInterrupt ==
    [][\A i \in Inst :
          /\ InUpdate(i)
          /\ Consumes(i)
          /\ Head(cmdq[i]).cmd \in NonCancel
          /\ Head(cmdq[i]).during # "idle"
          => pc'[i] \notin {"update_exit", "panic"}]_vars

\* C12 as stated: a StartUpdate, ManualPatch or ResetCache sent while the
\* controller was busy has no effect when the controller, back in its
\* command loop, takes it from the channel: no lock taken, no routine
\* entered, no cache file removed.
C12_BusyCommandsIgnored ==
    [][\A i \in Inst :
          /\ pc[i] = "idle"
          /\ Consumes(i)
          /\ Head(cmdq[i]).during # "idle"
          /\ Head(cmdq[i]).cmd \in NonCancel
          => /\ pc'[i] = "idle"
             /\ UNCHANGED <<lock, cacheFile, nruns>>]_vars

\* C13 as stated: when update_game returns after a stage observed Quit, the
\* core leaves its command loop without a further command: it terminates at
\* once or the Quit is still there for the loop to act on.
C13_QuitTerminates ==
    [][\A i \in Inst :
          pc[i] = "update_exit" /\ run[i].observed = "Quit" /\ pc'[i] # pc[i]
              => \/ pc'[i] = "terminated"
                 \/ \E k \in DOMAIN cmdq'[i] : cmdq'[i][k].cmd = "Quit"]_vars

\* C14 as stated: in Idle a disconnected channel ends the core as Quit does,
\* with the statuses Quit emits (none).
C14_DisconnectLikeQuit ==
    [][\A i \in Inst :
          pc[i] = "idle" /\ cmdq[i] = <<>> /\ ~connected[i] /\ pc'[i] # pc[i]
              => pc'[i] = "terminated" /\ statuses'[i] = <<>>]_vars

\* C15 as stated: with a CancelUpdate at the head of the channel during the
\* select! of download_patches_concurrent (sent during the select! or before
\* it: the engine, which has not received it yet, cannot tell), the engine
\* does not return its vector of PendingPatches: it returns Interrupted.
C15_CancelStopsDownload ==
    [][\A i \in Inst :
          /\ pc[i] \in {"download_poll", "wait_for_cancellation"}
          /\ cmdq[i] # <<>>
          /\ Head(cmdq[i]).cmd = "CancelUpdate"
          /\ pc'[i] \notin {"download_poll", "wait_for_cancellation"}
          => pc'[i] = "update_exit" /\ run'[i].res = Err("Patching was canceled", "")]_vars

\* C15: when wait_for_cancellation receives CancelUpdate, the engine returns
\* Interrupted whatever the state of the downloads, hands no PendingPatch to
\* the caller, no apply_patch call is made in the run and the cache file is
\* what the run read at its start.
C15_CancelObservedStopsDownload ==
    [][\A i \in Inst :
          pc[i] = "wait_for_cancellation" /\ pc'[i] # pc[i] /\ recv(cmdq[i]) = "CancelUpdate"
              => /\ Canceled(i)'
                 /\ run'[i].observed = "CancelUpdate"
                 /\ run'[i].pending_patch_queue = <<>>
                 /\ run'[i].applyLog = <<>>
                 /\ run'[i].applied = {}
                 /\ cacheFile' = run[i].cache_read]_vars

\* CancelUpdate was received while one download was done and one was running
C15_Witness ==
    \E i \in Inst :
        /\ Canceled(i)
        /\ run[i].observed = "CancelUpdate"
        /\ Len(run[i].vec) = 1
        /\ Running(i) # {}
        /\ run[i].pending_patch_queue = <<>>

\* C16 as stated: an update run in which a stage observed CancelUpdate
\* dispatches no Error status and ends with Ready.
C16_CancelIsNotAnError ==
    [][\A i \in Inst :
          pc[i] = "update_exit" /\ run[i].observed = "CancelUpdate" /\ pc'[i] # pc[i]
              => /\ \A k \in DOMAIN statuses'[i] : statuses'[i][k].tag # "Error"
                 /\ statuses'[i][Len(statuses'[i])] = Ready]_vars

\* C17 as stated: when the poll of the fallback loop of
\* find_available_patch_server observes CancelUpdate or Quit, the function
\* returns Interrupted, which interruptible_update_routine returns as the
\* error of a canceled run.
C17_ProberReturnsInterrupted ==
    [][\A i \in Inst :
          /\ pc[i] = "find_loop"
          /\ run[i].loop_idx <= run[i].web.server_count
          /\ try_recv(cmdq[i], connected[i]).msg \in {"CancelUpdate", "Quit"}
          /\ pc'[i] # pc[i]
          => Canceled(i)']_vars

\* C18 as stated: no core thread panics or aborts.
C18_NoPanic ==
    \A i \in Inst : pc[i] \notin {"panic", "panicked", "aborted"}

IsPrefix(s, t) == Len(s) <= Len(t) /\ \A k \in DOMAIN s : s[k] = t[k]

\* the order of the search: the preferred server when it is specified and in
\* the list, then the servers in list order
ProbeOrder(cfg) ==
    (IF cfg.preferred \in 1..cfg.server_count THEN <<cfg.preferred>> ELSE <<>>)
        \o [k \in 1..cfg.server_count |-> k]

\* find_available_patch_server has returned its last error
NoneAvailable(i) ==
    /\ pc[i] = "update_exit"
    /\ run[i].res = Err("None of the patch servers are available at the moment", "")

C20_NoReprobe ==
    \A i \in Inst : IsInjective(run[i].probed)

(***************************************************************************)
(* The downloads.                                                          *)
(***************************************************************************)
\* C21: at every moment of download_patches_concurrent_inner, whatever the
\* length of the patch list, at most CONCURRENT_DOWNLOADS (32) downloads have
\* been started and have neither completed nor failed.
C21_AtMostConcurrentDownloads ==
    \A i \in Inst : Cardinality(Running(i)) <= CONCURRENT_DOWNLOADS

\* 32 downloads are running and more patches of the list wait for a place
C21_Witness ==
    \E i \in Inst :
        /\ pc[i] = "download_poll"
        /\ Cardinality(Running(i)) = CONCURRENT_DOWNLOADS
        /\ Queued(i) # {}

\* the download future of a patch of the batch has returned an Err
SomeDownloadFailed(i) == \E k \in DOMAIN run[i].dl : run[i].dl[k] = "failed"

\* interruptible_update_routine has returned the error of
\* download_patches_concurrent
DownloadFailed(i) ==
    /\ pc[i] = "update_exit"
    /\ run[i].res.kind = "err"
    /\ run[i].res.text \in {download_error(o) : o \in DownloadOutcome}

\* C22: when a download of the batch fails, download_patches_concurrent
\* returns the error of that download (the first and only one to fail) and no
\* PendingPatch, whatever was downloaded before; apply_patch is not called in
\* the run and the cache file is what the run read.
C22_DownloadFailureFailsBatch ==
    \A i \in Inst :
        SomeDownloadFailed(i) =>
            /\ DownloadFailed(i)
            /\ \E k \in DOMAIN run[i].dl :
                  /\ run[i].dl[k] = "failed"
                  /\ run[i].res.file = run[i].patch_list[k].file_name
                  /\ \A j \in DOMAIN run[i].dl : run[i].dl[j] = "failed" => j = k
            /\ run[i].pending_patch_queue = <<>>
            /\ run[i].applyLog = <<>>
            /\ run[i].applied = {}
            /\ cacheFile = run[i].cache_read

\* one archive was downloaded and accepted, then another download failed
C22_Witness ==
    \E i \in Inst :
        /\ SomeDownloadFailed(i)
        /\ DownloadFailed(i)
        /\ run[i].vec # <<>>

\* the download future of patch k has returned Ok(PendingPatch) in this step
Accepts(i, k) ==
    /\ pc'[i] = "download_poll"
    /\ run'[i].dl[k] = "done"
    /\ run'[i].vec = Append(run[i].vec, run[i].patch_list[k])

\* the download future of patch k has returned an Err in this step
Rejects(i, k, text) ==
    /\ pc'[i] = "update_exit"
    /\ run'[i].dl[k] = "failed"
    /\ run'[i].res = Err(text, run[i].patch_list[k].file_name)

\* C23: the decision on a download whose transfer is complete.  With
\* ensure_integrity set, an archive with a valid integrity record is accepted,
\* one without a record is accepted, and one whose record does not match is
\* rejected as corrupt; with ensure_integrity unset every archive is accepted,
\* whatever its record.
C23_AcceptDecision ==
    [][\A i \in Inst :
         pc[i] = "download_poll" /\ run'[i] # run[i] =>
         \A k \in DOMAIN run[i].dl : \A o \in DownloadOutcome \ {"failed"} :
            download_finish(i, k, o) =>
                IF ~run[i].ensure_integrity THEN Accepts(i, k)
                ELSE CASE o = "valid" -> Accepts(i, k)
                       [] o = "no_record" -> Accepts(i, k)
                       [] o = "invalid" ->
                            Rejects(i, k, "Failed to download patches: Archive is corrupt")
                       [] OTHER -> pc'[i] = "update_exit"]_vars

\* with ensure_integrity set one archive was accepted and the download of
\* another is complete
C23_Witness ==
    \E i \in Inst :
        /\ run[i].ensure_integrity
        /\ \E k \in DOMAIN run[i].dl : run[i].dl[k] = "done"
        /\ \E k \in DOMAIN run[i].dl : run[i].dl[k] = "failed"

\* the archives of the batch that are on disk and have passed the check
Downloaded(i) == {k \in DOMAIN run[i].dl : run[i].dl[k] = "done"}

\* the DownloadInProgress statuses of the log, in the order of their dispatch
DownloadStatuses(log) ==
    LET IsDownload(st) == st.tag = "DownloadInProgress" IN SelectSeq(log, IsDownload)

\* C24: every DownloadInProgress(done, total, _) dispatched during a batch
\* carries the number of archives fully downloaded and checked at that
\* moment (no archive in progress is counted) and the length of the batch;
\* over the statuses of a run 0 <= done <= total and done never decreases.
C24_DoneCountsCompleted ==
    [][\A i \in Inst :
         /\ (pc[i] \in {"download", "download_poll"} /\ statuses'[i] # statuses[i]) =>
                \E bps \in 0..1 :
                    statuses'[i] = Append(statuses[i],
                        DownloadInProgress(Cardinality(Downloaded(i)),
                                           Len(run[i].patch_list), bps))
         /\ statuses'[i] # statuses[i] =>
                LET log == DownloadStatuses(statuses'[i])
                IN  /\ \A n \in DOMAIN log :
                          0 <= log[n].done /\ log[n].done <= log[n].total
                    /\ \A a, b \in DOMAIN log : a < b => log[a].done <= log[b].done]_vars

\* a status with done = 1 was dispatched while another download was running
C24_Witness ==
    \E i \in Inst :
        /\ pc[i] = "download_poll"
        /\ Running(i) # {}
        /\ statuses[i] # <<>>
        /\ statuses[i][Len(statuses[i])] = DownloadInProgress(1, 2, 1)

(***************************************************************************)
(* Cancellation of apply_patches.                                          *)
(***************************************************************************)
\* the poll at the head of an iteration of apply_patches returns Interrupted
\* in this step
ApplyPollInterrupted(i) ==
    /\ pc[i] = "apply_poll"
    /\ run[i].patch_number < Len(run[i].pending_patch_queue)
    /\ process_incoming_commands(cmdq[i], connected[i]).res = "Interrupted"
    /\ pc'[i] # pc[i]

\* apply_patches returns Ok(()) at once: the patch of the iteration and the
\* later ones are not attempted, the cache file is not written
ReturnsBeforePatch(i) ==
    /\ pc'[i] = "update_exit"
    /\ run'[i].res = Ok
    /\ run'[i].applyLog = run[i].applyLog
    /\ Len(run[i].applyLog) = run[i].patch_number
    /\ run'[i].applied = run[i].applied
    /\ cacheFile' = cacheFile

\* C25 as stated: when the poll before a patch observes a cancellation,
\* apply_patches returns Ok(()) at once, the patch and the later ones are not
\* attempted, and the cache file holds the index of the last patch applied
\* before the cancel (what the run read when there is none).
C25_CancelKeepsLastApplied ==
    [][\A i \in Inst :
         ApplyPollInterrupted(i) =>
            /\ ReturnsBeforePatch(i)
            /\ cacheFile' = IF run[i].patch_number = 0 THEN run[i].cache_read
                            ELSE last_applied(i).index]_vars

\* C25: when the poll before a patch observes a cancellation, apply_patches
\* returns Ok(()) at once, the patch and the later ones are not attempted,
\* and the cache file holds the index of the last patch of the run whose
\* write_cache_file succeeded (what the run read when there is none).
C25_CancelKeepsRecorded ==
    [][\A i \in Inst :
         ApplyPollInterrupted(i) =>
            /\ ReturnsBeforePatch(i)
            /\ cacheFile' = run[i].recorded
            /\ run[i].recorded \in {run[i].cache_read} \cup run[i].applied]_vars

\* apply_patches was canceled before the second of two patches; the first is
\* applied and recorded in the cache file
C25_Witness ==
    \E i \in Inst :
        /\ pc[i] = "update_exit"
        /\ run[i].res = Ok
        /\ run[i].observed = "CancelUpdate"
        /\ run[i].patch_number = 1
        /\ Len(run[i].pending_patch_queue) = 2
        /\ run[i].applyLog = <<last_applied(i).index>>
        /\ cacheFile = last_applied(i).index

\* C26 as stated: with a CancelUpdate in the channel at the head of an
\* iteration of apply_patches, whatever is queued before it, the stage ends
\* there: apply_patch is not called again.
C26_CancelStopsAtNextPoll ==
    [][\A i \in Inst :
         /\ pc[i] = "apply_poll"
         /\ run[i].patch_number < Len(run[i].pending_patch_queue)
         /\ \E k \in DOMAIN cmdq[i] : cmdq[i][k].cmd = "CancelUpdate"
         /\ pc'[i] # pc[i]
         => pc'[i] = "update_exit" /\ run'[i].applyLog = run[i].applyLog]_vars

\* a step of the core thread of i
CoreThread(i) ==
    \/ start_update(i)
    \/ cancel_update_idle(i)
    \/ reset_cache(i)
    \/ manual_patch(i)
    \/ quit(i)
    \/ channel_disconnected(i)
    \/ update_game(i)
    \/ find_preferred(i)
    \/ find_loop(i)
    \/ panic(i)
    \/ read_cache(i)
    \/ download_patches_concurrent(i)
    \/ download_start(i)
    \/ \E k \in 1..MaxPatches : download_progress(i, k)
    \/ \E k \in 1..MaxPatches, o \in DownloadOutcome : download_finish(i, k, o)
    \/ download_return(i)
    \/ download_pending(i)
    \/ wait_for_cancellation(i)
    \/ apply_patches(i)
    \/ apply_poll(i)
    \/ apply_patch(i)
    \/ update_cache(i)
    \/ update_exit(i)
    \/ apply_single_patch(i)
    \/ single_patch_exit(i)

\* a step of the core thread of i, or the drop of its channel's senders
CoreStep(i) == DropSender(i) \/ CoreThread(i)

\* C29 as stated: with a CancelUpdate or a Quit in the channel when
\* find_available_patch_server starts, no server is probed, the preferred
\* server included.
C29_NoProbeWhenCanceled ==
    [][\A i \in Inst :
         /\ pc[i] = "find_preferred"
         /\ cmdq[i] # <<>>
         /\ Head(cmdq[i]).cmd \in {"CancelUpdate", "Quit"}
         /\ pc'[i] # pc[i]
         => run'[i].probed = <<>>]_vars

(***************************************************************************)
(* The status channel.  UiController::new creates the channel it sends on  *)
(* and lets its Receiver go out of scope; NativeUi::new creates another    *)
(* channel, keeps its Receiver and lets its Sender go out of scope.        *)
(***************************************************************************)
\* who holds the Receiver of the channel UiController sends on
StatusReceiver == "dropped"

\* Sender::send: the status is queued for the Receiver, or handed back in an
\* Err (which dispatch_patching_status ignores) when the Receiver is gone
InStatusChannel(log) == IF StatusReceiver = "dropped" THEN <<>> ELSE log

\* the statuses NativeUi::update can take from its status_rx, in order
ReceivableByUi(log) == IF StatusReceiver = "NativeUi" THEN InStatusChannel(log) ELSE <<>>

\* C28 as stated: the statuses the core has dispatched are, in the order of
\* their dispatch, what the user interface receives from its status receiver.
C28_StatusesReachUi ==
    \A i \in Inst : ReceivableByUi(statuses[i]) = statuses[i]

(***************************************************************************)
(* Progress of the core thread.                                            *)
(***************************************************************************)
\* the core thread of i cannot go on by itself: it waits in a blocking call
Blocked(i) == ~ENABLED CoreThread(i)

\* the user interface has sent no command and holds its Sender
NoCommandSent == nsent = 0

\* errors of the environment of a run: tempfile::tempdir, env::current_dir
EnvironmentErrors ==
    {"Failed to create temporary directory",
     "Failed to apply patches: Failed to resolve current working directory"}

\* the run of i found the installation up to date: the cached index is in the
\* list of the mirror and the list has no newer entry
UpToDate(i) ==
    /\ pc[i] \in {"download", "download_poll", "wait_for_cancellation",
                  "apply_patches", "apply_poll", "update_exit"}
    /\ run[i].filtered
    /\ run[i].patch_list = <<>>
    /\ run[i].pending_patch_queue = <<>>
    /\ ~SomeDownloadFailed(i)

\* C27 as stated: a run on an installation that is up to date with the mirror
\* (as a successful first run leaves it) downloads no archive, applies no
\* patch, leaves last_patch_index as it is, reports no error of its own and,
\* with no command sent, goes on to its end.
C27_SecondRunNoOp ==
    \A i \in Inst :
        UpToDate(i) /\ NoCommandSent =>
            /\ run[i].dl = <<>> /\ run[i].vec = <<>>
            /\ run[i].applyLog = <<>>
            /\ cacheFile = run[i].cache_read
            /\ run[i].res.kind = "err" => run[i].res.text \in EnvironmentErrors
            /\ ~Blocked(i)

\* C30 as stated: with no command sent and the channel connected, while
\* download_patches_concurrent runs the core thread is never blocked (a
\* download can start, progress or complete, or the vector is returned), and
\* the routine does not return Interrupted.
C30_DownloadsNotBlocked ==
    \A i \in Inst :
        NoCommandSent =>
            /\ pc[i] \in {"download_poll", "wait_for_cancellation"} => ~Blocked(i)
            /\ ~Canceled(i)

(***************************************************************************)
(* The end of a failed run, as the window would show it.                   *)
(***************************************************************************)
\* Option::None of NativeUi.error_message
NoMessage == "None"

\* NativeUi::new: the fields the statuses change
NativeUi == [download_status |-> "Ready", error_message |-> NoMessage]

\* NativeUi::set_patching_status; the text of a progress status is kept as
\* its tag, and only Ready and Error assign error_message
set_patching_status(ui, status) ==
    CASE status.tag = "Ready" ->
             [download_status |-> "Ready", error_message |-> NoMessage]
      [] status.tag = "Error" ->
             [download_status |-> "Error", error_message |-> status.text]
      [] OTHER -> [ui EXCEPT !.download_status = status.tag]

\* the window after set_patching_status was called with each status of log
RECURSIVE ShownAfter(_, _)
ShownAfter(ui, log) ==
    IF log = <<>> THEN ui
    ELSE ShownAfter(set_patching_status(ui, Head(log)), Tail(log))

\* update_game is about to leave with an error that is not the cancellation
FailedRun(i) ==
    /\ pc[i] = "update_exit"
    /\ run[i].res.kind = "err"
    /\ run[i].res.text # "Patching was canceled"

\* C31 as stated: when update_game leaves after a run that failed with an
\* error other than the cancellation, the last status the run dispatched is
\* its Error status, no Ready follows it, and a window given the statuses of
\* the run shows the error.
C31_ErrorIsLastStatus ==
    [][\A i \in Inst :
          FailedRun(i) /\ pc'[i] = "idle" =>
              LET log == statuses'[i]
                  err == Error(run[i].res.text, run[i].res.file)
              IN  /\ log[Len(log)] = err
                  /\ \A a, b \in DOMAIN log : log[a] = err /\ a < b => log[b] # Ready
                  /\ ShownAfter(NativeUi, log).download_status = "Error"
                  /\ ShownAfter(NativeUi, log).error_message = run[i].res.text]_vars

Next ==
    \E i \in Inst :
        \/ \E c \in PatcherCommand : Send(i, c)
        \/ CoreStep(i)

\* Next with the stage of the core thread recorded in every message sent
NextDuring ==
    \E i \in Inst :
        \/ \E c \in PatcherCommand : SendDuring(i, c)
        \/ CoreStep(i)

Spec == Init /\ [][Next]_vars

SpecInstances == InitInstances /\ [][Next]_vars

\* one process, every message tagged with the stage it was sent in
SpecCommands == Init /\ [][NextDuring]_vars

\* one process with a command waiting in its channel from the start
SpecQueued == InitQueued /\ [][Next]_vars

(***************************************************************************)
(* download_patches_concurrent on long patch lists.  The routine is        *)
(* entered by the core thread of p1, under the lock, with a patch list of  *)
(* up to PoolPatches entries and no command in the channel.  Of the        *)
(* running downloads the one started first completes first: how many       *)
(* downloads run depends on how many have completed, not on which.         *)
(***************************************************************************)
\* a patch list of n entries, oldest first
PatchListOfLen(n) ==
    [k \in 1..n |-> [index |-> k, file_name |-> ToString(k) \o ".thor"]]

InitPool ==
    /\ lock = "p1"
    /\ cacheFile = NoCache
    /\ pc = [i \in Inst |-> IF i = "p1" THEN "download" ELSE "off"]
    /\ cmdq = [i \in Inst |-> <<>>]
    /\ connected = [i \in Inst |-> TRUE]
    /\ nsent = 0
    /\ nruns = 1
    /\ \E n \in 0..PoolPatches :
         run = [i \in Inst |-> IF i = "p1"
                               THEN [NoRun EXCEPT !.patch_list = PatchListOfLen(n)]
                               ELSE NoRun]
    /\ statuses = [i \in Inst |-> IF i = "p1"
                                  THEN set_patching_in_progress(<<>>, TRUE) ELSE <<>>]

NextPool ==
    \E i \in Inst :
        \/ download_patches_concurrent(i)
        \/ download_start(i)
        \/ Running(i) # {} /\ download_progress(i, Min(Running(i)))
        \/ \E o \in DownloadOutcome :
               Running(i) # {} /\ download_finish(i, Min(Running(i)), o)
        \/ download_return(i)

SpecPool == InitPool /\ [][NextPool]_vars

====
